---------------------------- MODULE Spec2Model ----------------------------
(***************************************************************************)
(* Model of src/main.py (DomeAppPy): a main thread that discovers and      *)
(* configures cameras, waits for PTP sync, starts the streams and runs an   *)
(* interactive capture loop (fire_cameras), and a worker thread             *)
(* (save_image_buffers) that drains the shared queue to disk.               *)
(*                                                                         *)
(* Each action is one statement (or one call on an external object) of one  *)
(* thread, so that every interleaving of the two threads is explored.       *)
(* A call on a device may raise; how many calls raise in one run is capped  *)
(* by MaxFaults.  The PtpStatus reads of wait_for_sync, writer.save, the    *)
(* queue and the transport-layer node map (SYS_TL_MAP) are taken to return. *)
(***************************************************************************)
EXTENDS Integers, Sequences, FiniteSets, TLC

\* ------------------------------------------------------------- bounds
NumDevices == 2      \* most cameras system.create_device() may find
MaxCycles  == 2      \* most times the user presses enter before q
MaxFaults  == 2      \* most device calls that raise in one run

\* ---------------------------------------------------------- constants
PTP_DELTA == 10000000

\* PtpStatus values: the code tells "Master" from everything else.
PtpStates == {"Master", "Slave"}

VARIABLES
    mpc,         \* main thread: the statement it is about to execute
    dev,         \* the loop variable `device` of the main thread (0: none)
    faults,      \* device calls that raised so far
    \* the fleet
    nDev,        \* len(devices); the devices are 1..nDev in list order
    streaming,   \* devices whose start_stream() completed
    held,        \* per device: buffers handed out by get_buffer, not requeued
    started,     \* history: per device, start_stream() calls
    mem,         \* per device: the image in the device's buffer memory, as
                 \* the number of the cycle that acquired it (0: none)
    \* wait_for_sync
    ptpStatus,   \* environment: each device's PtpStatus node while
                 \* wait_for_sync polls it (<< >> outside wait_for_sync)
    count,       \* "Master" entries of `status` read so far in this poll
    masters,     \* masters
    \* the interactive loop and the running fire_cameras cycle
    batch,       \* __main__: batch
    calls,       \* history: the batch argument of every fire_cameras call
    attempts,    \* history, this cycle: per device, TransferStart executions
    retrieved,   \* history, this cycle: devices whose get_buffer returned
    lost,        \* history, this cycle: devices whose block raised between
                 \* get_buffer returning and the put
    mark,        \* history: len(enqueued) when this cycle was called
    buffer,      \* fire_cameras: device whose buffer `buffer` is (0: unset)
    serial,      \* fire_cameras: serial (0: unset)
    ptp_time,    \* fire_cameras: ptp_time
    ActionCommandExecuteTime,  \* SYS_TL_MAP["ActionCommandExecuteTime"]
    fires,       \* history: every ActionCommandFireCommand execution
    \* shared between the threads
    buffer_queue, \* the queue.Queue() of FrameTasks
    enqueued,    \* history: every FrameTask ever put
    to_do,       \* to_do_signal.value
    \* save_image_buffers
    wpc,         \* worker thread: the statement it is about to execute
    task,        \* (buffer, batch, serial) just dequeued
    saved,       \* history: every FrameTask passed to writer.save
    sessionID,   \* sessionID ("": unset)
    written      \* history: the path and the image of every writer.save

fleet  == <<nDev, streaming, held>>
sync   == <<ptpStatus, count, masters>>
cycle  == <<batch, calls, attempts, retrieved, lost, mark>>
locals == <<buffer, serial>>
chan   == <<buffer_queue, enqueued>>
worker == <<wpc, task, saved, sessionID, written>>
trig   == <<ptp_time, ActionCommandExecuteTime, fires>>

vars == <<mpc, dev, faults, fleet, sync, cycle, locals, chan, to_do, worker,
          trig, mem, started>>

AllDevices == 1 .. NumDevices
devices == 1 .. nDev

\* DeviceSerialNumber of the d-th device
SerialOf(d) == 100 + d

NoTask == [src |-> 0, image |-> [ref |-> 0, data |-> 0], batch |-> 0,
           serial |-> 0]

Init ==
    /\ mpc = "create"
    /\ dev = 0
    /\ faults = 0
    /\ nDev = 0
    /\ streaming = {}
    /\ held = [d \in AllDevices |-> 0]
    /\ ptpStatus = << >>
    /\ count = 0
    /\ masters = 0
    /\ batch = 0
    /\ calls = << >>
    /\ attempts = [d \in AllDevices |-> 0]
    /\ retrieved = {}
    /\ lost = {}
    /\ mark = 0
    /\ buffer = 0
    /\ serial = 0
    /\ buffer_queue = << >>
    /\ enqueued = << >>
    /\ to_do = 1
    /\ wpc = "unstarted"
    /\ task = NoTask
    /\ saved = << >>
    /\ sessionID = ""
    /\ written = << >>
    /\ ptp_time = 0
    /\ ActionCommandExecuteTime = 0
    /\ fires = << >>
    /\ mem = [d \in AllDevices |-> 0]
    /\ started = [d \in AllDevices |-> 0]

\* ------------------------------------------------------- main thread
\* A device call can raise only while the fault budget lasts.
MayRaise == faults < MaxFaults

\* A device call raised and the enclosing try caught it.
Raise == /\ MayRaise
         /\ faults' = faults + 1

\* devices = system.create_device(); an empty list raises "No cameras connected"
CreateDevice ==
    /\ mpc = "create"
    /\ \E n \in 0 .. NumDevices :
          /\ nDev' = n
          /\ IF n = 0
                THEN mpc' = "fatal" /\ dev' = 0
                ELSE mpc' = "configure" /\ dev' = 1
    /\ UNCHANGED <<faults, streaming, held, sync, cycle, locals, chan, to_do,
                   worker,
                   trig, mem, started>>

\* One pass of `for device in devices: try: configure_camera(device, id)`.
ConfigureCamera ==
    /\ mpc = "configure"
    /\ \/ faults' = faults
       \/ Raise
    /\ IF dev < nDev
          THEN dev' = dev + 1 /\ mpc' = mpc
          ELSE dev' = 0 /\ mpc' = "sys_setup"
    /\ UNCHANGED <<fleet, sync, cycle, locals, chan, to_do, worker,
                   trig, mem, started>>

\* SYS_TL_MAP["ActionCommand..."] = ...; then wait_for_sync is called
\* (masters = 0), with the election in any state.
SysSetup ==
    /\ mpc = "sys_setup"
    /\ mpc' = "sync_check"
    /\ masters' = 0
    /\ ptpStatus' \in [devices -> PtpStates]
    /\ UNCHANGED <<dev, faults, fleet, count, cycle, locals, chan, to_do,
                   worker,
                   trig, mem, started>>

\* Variant: while masters == 0 (any number of masters ends the wait).
SyncLoopsNoMaster == masters = 0

\* wait_for_sync: while masters != 1
SyncLoops == masters # 1

SyncCheck ==
    /\ mpc = "sync_check"
    /\ IF SyncLoops
          THEN /\ mpc' = "sync_poll" /\ dev' = 1 /\ count' = 0
               /\ ptpStatus' = ptpStatus
          ELSE /\ mpc' = "streams" /\ dev' = 1 /\ count' = count
               /\ ptpStatus' = << >>
    /\ UNCHANGED <<faults, fleet, masters, cycle, locals, chan, to_do,
                   worker,
                   trig, mem, started>>

\* status = [d.nodemap["PtpStatus"].value for d in devices], one device per
\* step; masters = status.count("Master") with the last one.
SyncPoll ==
    /\ mpc = "sync_poll"
    /\ LET c == count + (IF ptpStatus[dev] = "Master" THEN 1 ELSE 0)
       IN  IF dev < nDev
              THEN /\ dev' = dev + 1
                   /\ count' = c
                   /\ UNCHANGED <<mpc, masters>>
              ELSE /\ dev' = 0
                   /\ count' = c
                   /\ masters' = c
                   /\ mpc' = "sync_sleep"
    /\ UNCHANGED <<faults, fleet, ptpStatus, cycle, locals, chan, to_do,
                   worker,
                   trig, mem, started>>

\* time.sleep(2)
SyncSleep ==
    /\ mpc = "sync_sleep"
    /\ mpc' = "sync_check"
    /\ UNCHANGED <<dev, faults, fleet, sync, cycle, locals, chan, to_do,
                   worker,
                   trig, mem, started>>

\* The for loop of start_streams moves to the next device, or returns.
NextStream ==
    IF dev < nDev
       THEN dev' = dev + 1 /\ mpc' = mpc
       ELSE dev' = 0 /\ mpc' = "thread_start"

\* Variant: the try encloses the whole for loop, a raise ends start_streams.
StreamExceptAborts == Raise /\ dev' = 0 /\ mpc' = "thread_start"

\* except: print("*"): the loop goes on with the next device.
StreamExcept == Raise /\ NextStream

\* One pass of `for device in devices: try: device.start_stream()`;
\* started counts the calls of start_stream on each device.
StartStream ==
    /\ mpc = "streams"
    /\ started' = [started EXCEPT ![dev] = @ + 1]
    /\ \/ streaming' = streaming \cup {dev} /\ faults' = faults /\ NextStream
       \/ streaming' = streaming /\ StreamExcept
    /\ UNCHANGED <<nDev, held, sync, cycle, locals, chan, to_do, worker, trig,
                   mem>>

\* buffer_queue = queue.Queue(); to_do_signal = Value("i", 1);
\* save_thread.start(); batch = 0
ThreadStart ==
    /\ mpc = "thread_start"
    /\ buffer_queue' = << >>
    /\ to_do' = 1
    /\ wpc' = "session"
    /\ batch' = 0
    /\ mpc' = "input"
    /\ UNCHANGED <<dev, faults, fleet, sync, calls, attempts, retrieved, lost,
                   mark, locals, enqueued, task, saved, sessionID, written,
                   trig, mem, started>>

\* ------------------------------------------------------- environment
\* The PTP election changes one device's PtpStatus.  The program reads the
\* node only inside wait_for_sync, so the election is followed only there.
PtpElect ==
    /\ mpc \in {"sync_check", "sync_poll", "sync_sleep"}
    /\ \E d \in devices, s \in PtpStates :
          /\ s # ptpStatus[d]
          /\ ptpStatus' = [ptpStatus EXCEPT ![d] = s]
    /\ UNCHANGED <<mpc, dev, faults, fleet, count, masters, cycle, locals,
                   chan, to_do, worker,
                   trig, mem, started>>

\* ------------------------------------------------- interactive loop
\* input(...) != "q": the user presses enter; fire_cameras(devices,
\* buffer_queue, batch) is called.
InputEnter ==
    /\ mpc = "input"
    /\ Len(calls) < MaxCycles
    /\ calls' = Append(calls, batch)
    /\ attempts' = [d \in AllDevices |-> 0]
    /\ retrieved' = {}
    /\ lost' = {}
    /\ mark' = Len(enqueued)
    /\ mpc' = "latch"
    /\ UNCHANGED <<dev, faults, fleet, sync, batch, locals, chan, to_do,
                   worker,
                   trig, mem, started>>

\* input(...) == "q": the loop ends.
InputQuit ==
    /\ mpc = "input"
    /\ mpc' = "signal"
    /\ UNCHANGED <<dev, faults, fleet, sync, cycle, locals, chan, to_do,
                   worker,
                   trig, mem, started>>

\* ----------------------------------------------------- fire_cameras
\* The clock a device shows when it is latched in the current cycle: it has
\* advanced since the cycle before, and no two devices latch the same value.
PtpClock(d) == Len(calls) * PTP_DELTA + d

\* device = devices[0]
FirstDevice == 1

\* device = devices[0]; PtpDataSetLatch.execute(); ptp_time = ...Value.
\* No try encloses these: a raise leaves fire_cameras and the main loop.
Latch ==
    /\ mpc = "latch"
    /\ \/ /\ ptp_time' = PtpClock(FirstDevice)
          /\ mpc' = "set_time"
          /\ faults' = faults
       \/ Raise /\ mpc' = "crashed" /\ ptp_time' = ptp_time
    /\ UNCHANGED <<dev, fleet, sync, cycle, locals, chan, to_do, worker,
                   ActionCommandExecuteTime, fires, mem, started>>

\* Variant: the margin is left out.
ExecuteTimeNoDelta == ptp_time

\* ptp_time + PTP_DELTA
ExecuteTime == ptp_time + PTP_DELTA

\* SYS_TL_MAP["ActionCommandExecuteTime"].value = ptp_time + PTP_DELTA
SetTime ==
    /\ mpc = "set_time"
    /\ ActionCommandExecuteTime' = ExecuteTime
    /\ mpc' = "fire"
    /\ UNCHANGED <<dev, faults, fleet, sync, cycle, locals, chan, to_do,
                   worker, ptp_time, fires, mem, started>>

\* SYS_TL_MAP["ActionCommandFireCommand"].execute(); the for loop starts.
\* fires notes each command sent: the latched time and the execute time set.
Fire ==
    /\ mpc = "fire"
    /\ fires' = Append(fires, [t0 |-> ptp_time,
                               at |-> ActionCommandExecuteTime])
    /\ mpc' = "xfer_start"
    /\ dev' = 1
    /\ UNCHANGED <<faults, fleet, sync, cycle, locals, chan, to_do, worker,
                   ptp_time, ActionCommandExecuteTime, mem, started>>

\* The for loop moves to the next device, or fire_cameras returns.
NextDevice ==
    IF dev < nDev
       THEN dev' = dev + 1 /\ mpc' = "xfer_start"
       ELSE dev' = 0 /\ mpc' = "incr"

\* Variant: the try encloses the whole for loop, a raise ends the cycle.
ExceptAborts == Raise /\ dev' = 0 /\ mpc' = "incr"

\* except Exception as e: print(e)
Except == Raise /\ NextDevice

\* device.nodemap["TransferStart"].execute()
TransferStart ==
    /\ mpc = "xfer_start"
    /\ attempts' = [attempts EXCEPT ![dev] = @ + 1]
    /\ \/ mpc' = "get_buffer" /\ UNCHANGED <<dev, faults>>
       \/ Except
    /\ UNCHANGED <<fleet, sync, batch, calls, retrieved, lost, mark, locals,
                   chan, to_do, worker,
                   trig, mem, started>>

\* buffer = device.get_buffer(timeout=500): the device hands out the buffer
\* with the image of this cycle in it.  A device that is not streaming has
\* no buffer to give: the call raises whatever the fault budget.
GetBuffer ==
    /\ mpc = "get_buffer"
    /\ \/ /\ dev \in streaming
          /\ buffer' = dev
          /\ mem' = [mem EXCEPT ![dev] = Len(calls)]
          /\ held' = [held EXCEPT ![dev] = @ + 1]
          /\ retrieved' = retrieved \cup {dev}
          /\ mpc' = "xfer_stop"
          /\ UNCHANGED <<dev, faults>>
       \/ /\ dev \in streaming
          /\ Except
          /\ UNCHANGED <<buffer, mem, held, retrieved>>
       \/ /\ dev \notin streaming
          /\ NextDevice
          /\ UNCHANGED <<buffer, mem, held, retrieved, faults>>
    /\ UNCHANGED <<nDev, streaming, sync, batch, calls, attempts, lost, mark,
                   serial, chan, to_do, worker, trig, started>>

\* device.nodemap["TransferStop"].execute()
TransferStop ==
    /\ mpc = "xfer_stop"
    /\ \/ mpc' = "serial" /\ UNCHANGED <<dev, faults, lost>>
       \/ Except /\ lost' = lost \cup {dev}
    /\ UNCHANGED <<fleet, sync, batch, calls, attempts, retrieved, mark,
                   locals, chan, to_do, worker,
                   trig, mem, started>>

\* Variant: the serial is read from devices[0], the `device` of line 96.
SerialReadRef == SerialOf(1)

\* device.nodemap["DeviceSerialNumber"].value, of the loop's device
SerialRead == SerialOf(dev)

\* serial = device.nodemap["DeviceSerialNumber"].value
ReadSerial ==
    /\ mpc = "serial"
    /\ \/ /\ serial' = SerialRead
          /\ mpc' = "put"
          /\ UNCHANGED <<dev, faults, lost>>
       \/ Except /\ serial' = serial /\ lost' = lost \cup {dev}
    /\ UNCHANGED <<fleet, sync, batch, calls, attempts, retrieved, mark,
                   buffer, chan, to_do, worker,
                   trig, mem, started>>

\* Variant: the device's buffer itself is enqueued.
BufferAlias(b) == [ref |-> b, data |-> 0]

\* BufferFactory.copy(buffer): a buffer of its own (ref 0) with the image
\* that is in the device's buffer now
BufferCopy(b) == [ref |-> 0, data |-> mem[b]]

\* The image a buffer object holds: its own, or what is in the memory of the
\* device it refers to.
ImageOf(b) == IF b.ref = 0 THEN b.data ELSE mem[b.ref]

\* The FrameTask of line 117: (BufferFactory.copy(buffer), batch, serial);
\* src notes the device the buffer came from.
FrameTask == [src |-> buffer, image |-> BufferCopy(buffer), batch |-> batch,
              serial |-> serial]

\* Variant: queue.Queue(maxsize=1), whose put blocks while the queue is full.
PutBounded(t) ==
    /\ Len(buffer_queue) < 1
    /\ buffer_queue' = Append(buffer_queue, t)
    /\ enqueued' = Append(enqueued, t)

\* buffer_queue.put(t) on queue.Queue(): unbounded, never blocks.
Put(t) ==
    /\ buffer_queue' = Append(buffer_queue, t)
    /\ enqueued' = Append(enqueued, t)

\* The copy returned: the FrameTask is enqueued.
Enqueue ==
    /\ Put(FrameTask)
    /\ mpc' = "requeue"
    /\ UNCHANGED <<dev, faults, lost>>

\* buffer_queue.put((BufferFactory.copy(buffer), batch, serial)); the copy
\* may raise, the put does not.
CopyPut ==
    /\ mpc = "put"
    /\ \/ Enqueue
       \/ Except /\ lost' = lost \cup {dev} /\ UNCHANGED chan
    /\ UNCHANGED <<fleet, sync, batch, calls, attempts, retrieved, mark,
                   locals, to_do, worker,
                   trig, mem, started>>

\* device.requeue_buffer(buffer)
RequeueBuffer ==
    /\ mpc = "requeue"
    /\ \/ /\ held' = [held EXCEPT ![buffer] = @ - 1]
          /\ NextDevice
          /\ faults' = faults
       \/ Except /\ held' = held
    /\ UNCHANGED <<nDev, streaming, sync, cycle, locals, chan, to_do, worker,
                   trig, mem, started>>

\* Variant: the increment is missing.
NextBatchSame == batch

\* batch += 1
NextBatch == batch + 1

\* fire_cameras has returned; batch += 1
IncrBatch ==
    /\ mpc = "incr"
    /\ batch' = NextBatch
    /\ mpc' = "input"
    /\ UNCHANGED <<dev, faults, fleet, sync, calls, attempts, retrieved, lost,
                   mark, locals, chan, to_do, worker,
                   trig, mem, started>>

\* ---------------------------------------------------------- shutdown
\* to_do_signal.value = 0
Signal ==
    /\ mpc = "signal"
    /\ to_do' = 0
    /\ mpc' = "join"
    /\ UNCHANGED <<dev, faults, fleet, sync, cycle, locals, chan, worker,
                   trig, mem, started>>

\* Variant: the main flow does not wait for the thread.
WorkerEndedOrNot == TRUE

\* Thread.join() returns only when the thread has ended.
WorkerEnded == wpc = "done"

\* save_thread.join()
Join ==
    /\ mpc = "join"
    /\ WorkerEnded
    /\ mpc' = "destroy"
    /\ UNCHANGED <<dev, faults, fleet, sync, cycle, locals, chan, to_do,
                   worker,
                   trig, mem, started>>

\* system.destroy_device(); the program ends.
DestroyDevice ==
    /\ mpc = "destroy"
    /\ mpc' = "terminated"
    /\ UNCHANGED <<dev, faults, fleet, sync, cycle, locals, chan, to_do,
                   worker,
                   trig, mem, started>>

\* ---------------------------------------------- save_image_buffers
mainVars == <<mpc, dev, faults, fleet, sync, cycle, locals, trig, mem,
             started>>

\* The value of datetime.now().strftime("%Y%m%dT%H%M%S") at the worker's
\* start: a timestamp of 15 characters.
Sessions == {"20240101T000000"}

\* sessionID = datetime.now().strftime(...); writer = Writer()
WorkerSession ==
    /\ wpc = "session"
    /\ sessionID' \in Sessions
    /\ wpc' = "outer"
    /\ UNCHANGED <<mainVars, chan, to_do, task, saved, written>>

\* Variant: while to_do.value and not buffer_queue.empty()
OuterFlagAnd ==
    IF to_do # 0 /\ buffer_queue # << >> THEN "inner" ELSE "done"

\* Variant: while to_do.value, without the test of the queue.
OuterFlagOnly == IF to_do # 0 THEN "inner" ELSE "done"

\* while to_do.value ...: the flag is read first.
OuterFlag == IF to_do # 0 THEN "inner" ELSE "outer_empty"

WorkerOuter ==
    /\ wpc = "outer"
    /\ wpc' = OuterFlag
    /\ UNCHANGED <<mainVars, chan, to_do, task, saved, sessionID, written>>

\* Variant: the worker's loop does not end.
OuterEmptyNever == IF buffer_queue # << >> THEN "inner" ELSE "sleep"

\* ... or not buffer_queue.empty(): read only when the flag was 0.
OuterEmpty == IF buffer_queue # << >> THEN "inner" ELSE "done"

WorkerOuterEmpty ==
    /\ wpc = "outer_empty"
    /\ wpc' = OuterEmpty
    /\ UNCHANGED <<mainVars, chan, to_do, task, saved, sessionID, written>>

\* Variant: the queue is drained only once the flag says stop.
InnerTestWaits ==
    IF buffer_queue # << >> /\ to_do = 0 THEN "get" ELSE "sleep"

\* Variant: get is called without looking at the queue.
InnerTestAlways ==
    IF buffer_queue # << >> \/ to_do # 0 THEN "get" ELSE "sleep"

\* not buffer_queue.empty()
InnerTest == IF buffer_queue # << >> THEN "get" ELSE "sleep"

\* while not buffer_queue.empty()
WorkerInner ==
    /\ wpc = "inner"
    /\ wpc' = InnerTest
    /\ UNCHANGED <<mainVars, chan, to_do, task, saved, sessionID, written>>

\* buffer, batch, serial = buffer_queue.get(): blocks while the queue is
\* empty.
\* Variant: a LIFO queue, get takes the newest item.
QueueGetLast ==
    [item |-> buffer_queue[Len(buffer_queue)],
     rest |-> SubSeq(buffer_queue, 1, Len(buffer_queue) - 1)]

\* queue.Queue.get(): the oldest item, and the queue without it
QueueGet == [item |-> Head(buffer_queue), rest |-> Tail(buffer_queue)]

WorkerGet ==
    /\ wpc = "get"
    /\ buffer_queue # << >>
    /\ task' = QueueGet.item
    /\ buffer_queue' = QueueGet.rest
    /\ wpc' = "save"
    /\ UNCHANGED <<mainVars, enqueued, to_do, saved, sessionID, written>>

\* Variant: {batch:02}
Pad2(n) ==
    IF n < 10 THEN "0" \o ToString(n) ELSE ToString(n)

\* {batch:03}: decimal, zero-padded on the left to at least 3 characters
Pad3(n) ==
    IF n < 10 THEN "00" \o ToString(n)
    ELSE IF n < 100 THEN "0" \o ToString(n)
    ELSE ToString(n)

\* Variant: the path has no directory of the batch.
PathOfNoScene(session, scene, cam) ==
    "images/" \o session \o "/cam_" \o cam \o ".raw"

\* f"images/{sessionID}/Scene_{...}/cam_{...}.raw" with the fields as text
PathOf(session, scene, cam) ==
    "images/" \o session \o "/Scene_" \o scene \o "/cam_" \o cam \o ".raw"

\* f"images/{sessionID}/Scene_{batch:03}/cam_{serial}.raw" of the dequeued
\* (buffer, batch, serial)
SavePath == PathOf(sessionID, Pad3(task.batch), ToString(task.serial))

\* writer.save(buffer, f"images/{sessionID}/Scene_{batch:03}/cam_{serial}.raw")
WorkerSave ==
    /\ wpc = "save"
    /\ saved' = Append(saved, task)
    /\ written' = Append(written, [path |-> SavePath,
                                   image |-> ImageOf(task.image)])
    /\ wpc' = "inner"
    /\ UNCHANGED <<mainVars, chan, to_do, task, sessionID>>

\* time.sleep(1)
WorkerSleep ==
    /\ wpc = "sleep"
    /\ wpc' = "outer"
    /\ UNCHANGED <<mainVars, chan, to_do, task, saved, sessionID, written>>

\* ------------------------------------------------------ specification
\* The main thread up to the return of wait_for_sync.
SyncMain ==
    \/ CreateDevice \/ ConfigureCamera \/ SysSetup
    \/ SyncCheck \/ SyncPoll \/ SyncSleep

\* One fire_cameras step.
FireStep ==
    \/ Latch \/ SetTime \/ Fire
    \/ TransferStart \/ GetBuffer \/ TransferStop \/ ReadSerial
    \/ CopyPut \/ RequeueBuffer

MainStep ==
    \/ SyncMain
    \/ StartStream \/ ThreadStart
    \/ InputEnter \/ InputQuit
    \/ FireStep
    \/ IncrBatch
    \/ Signal \/ Join \/ DestroyDevice

WorkerStep ==
    \/ WorkerSession \/ WorkerOuter \/ WorkerOuterEmpty \/ WorkerInner
    \/ WorkerGet \/ WorkerSave \/ WorkerSleep

Next == MainStep \/ WorkerStep \/ PtpElect

Spec == Init /\ [][Next]_vars

\* The program up to the return of wait_for_sync, with the main thread
\* scheduled fairly (time.sleep(2) returns).
SyncNext == SyncMain \/ PtpElect

SyncSpec == Init /\ [][SyncNext]_vars /\ WF_vars(SyncMain)

\* The main flow from the user's q on: nothing in it waits for input.
Shutdown == Signal \/ Join \/ DestroyDevice

\* The whole program with the worker thread scheduled fairly (writer.save
\* and time.sleep(1) return) and the shutdown of the main flow carried on.
\* The user may wait for ever before the next input.
FairSpec == Spec /\ WF_vars(WorkerStep) /\ WF_vars(Shutdown)

\* ------------------------------------------------------------ claims
\* The FrameTasks enqueued by the running (or last) fire_cameras cycle.
CycleTasks == SubSeq(enqueued, mark + 1, Len(enqueued))

\* fire_cameras is inside the per-device block, past get_buffer.
InBlock == mpc \in {"xfer_stop", "serial", "put", "requeue"}

\* The main flow has left the capture loop or is between two cycles.
Returned == mpc \in {"incr", "input", "signal", "join", "destroy",
                     "terminated"}

\* C1: when the worker has exited, the queue is empty and every FrameTask
\* ever enqueued has been passed to writer.save (no frame is dropped on
\* shutdown), under every interleaving of the two threads.
C1_NoFrameDropped ==
    wpc = "done" =>
        /\ buffer_queue = << >>
        /\ \A i \in DOMAIN enqueued :
              \E j \in DOMAIN saved : saved[j] = enqueued[i]

\* C1 witness: the worker has exited after frames of two cycles were
\* enqueued.
C1_Witness ==
    /\ wpc = "done"
    /\ Len(enqueued) >= 2
    /\ batch = 2

\* Every FrameTask of the cycle carries the cycle's batch index and the
\* serial of the device whose buffer it copies.
TagsRight ==
    \A i \in DOMAIN CycleTasks :
        /\ CycleTasks[i].batch = calls[Len(calls)]
        /\ CycleTasks[i].serial = SerialOf(CycleTasks[i].src)

\* C2 as stated: when fire_cameras returns, the cycle has enqueued exactly
\* as many FrameTasks as devices whose get_buffer returned, whatever steps
\* failed, each with the right batch and serial.
C2_ExactlyKRetrieved ==
    mpc = "incr" =>
        /\ Len(CycleTasks) = Cardinality(retrieved)
        /\ TagsRight

\* C2 amended: when fire_cameras returns, the cycle has enqueued exactly one
\* FrameTask for each device whose get_buffer returned and whose
\* TransferStop, serial read and copy did not raise (a raise of
\* requeue_buffer does not matter), each with the cycle's batch index and
\* its own device's serial.
C2_ExactlyKCopied ==
    mpc = "incr" =>
        /\ Len(CycleTasks) = Cardinality(retrieved \ lost)
        /\ {CycleTasks[i].src : i \in DOMAIN CycleTasks} = retrieved \ lost
        /\ TagsRight

\* C2 witness: a cycle over all devices has returned, one device lost its
\* retrieved buffer to a later raise and another was enqueued.
C2_Witness ==
    /\ mpc = "incr"
    /\ nDev = NumDevices
    /\ lost # {}
    /\ Len(CycleTasks) >= 1
    /\ Cardinality(retrieved) > Len(CycleTasks)

\* C3 as stated: outside the per-device block of fire_cameras no device has
\* a buffer that was acquired and not requeued.
C3_BufferReturned ==
    ~InBlock => \A d \in AllDevices : held[d] = 0

\* Devices reporting "Master" while wait_for_sync polls.
MastersNow == {d \in DOMAIN ptpStatus : ptpStatus[d] = "Master"}

\* C4: wait_for_sync returns only after a poll counted exactly one master,
\* it returns once a poll has counted exactly one, and if the election
\* settles with exactly one master it eventually returns.
C4_SyncIff ==
    /\ [][(mpc = "sync_check" /\ mpc' = "streams") => masters = 1]_vars
    /\ [](mpc = "streams" => (masters = 1 /\ count = 1))
    /\ (mpc = "sync_sleep" /\ masters = 1) ~> (mpc = "streams")
    /\ <>[](Cardinality(MastersNow) = 1) => <>(mpc = "streams")

\* C4 witness: wait_for_sync has returned over all devices.
C4_Witness ==
    /\ mpc = "streams"
    /\ nDev = NumDevices
    /\ masters = 1

\* C5: in a cycle no device is attempted twice; when fire_cameras has
\* returned every device was attempted exactly once, whatever failed; a
\* cycle is never left once the fire command was issued; the main loop then
\* goes on; and with one failed retrieval among N devices the batch has
\* N - 1 FrameTasks.
C5_EveryDeviceOnce ==
    /\ \A d \in AllDevices : attempts[d] <= 1
    /\ (Returned /\ calls # << >>) => \A d \in devices : attempts[d] = 1
    /\ mpc = "crashed" => \A d \in AllDevices : attempts[d] = 0
    /\ mpc = "incr" => ENABLED IncrBatch
    /\ (mpc = "incr" /\ Cardinality(devices \ retrieved) = 1 /\ lost = {})
          => Len(CycleTasks) = nDev - 1

\* C5 witness: a cycle over all devices with exactly one failed retrieval
\* has returned with one FrameTask fewer than devices, and the main loop is
\* at the prompt again.
C5_Witness ==
    /\ mpc = "input"
    /\ nDev = NumDevices
    /\ Len(calls) = 1
    /\ batch = 1
    /\ Cardinality(devices \ retrieved) = 1
    /\ Len(CycleTasks) = nDev - 1

\* C6 as stated: no error raised by a device call ends the main flow; only
\* finding no devices does, before any capture.
C6_ErrorsContained ==
    /\ mpc # "crashed"
    /\ mpc = "fatal" => calls = << >>

\* C7: the devices are released only when the worker has exited and
\* buffer_queue is empty, and the worker exits only with the flag cleared
\* and buffer_queue empty.
C7_JoinBeforeRelease ==
    /\ mpc \in {"destroy", "terminated"} =>
          (wpc = "done" /\ buffer_queue = << >>)
    /\ wpc = "done" => (to_do = 0 /\ buffer_queue = << >>)

\* C7 witness: the devices were released after the worker saved frames.
C7_Witness ==
    /\ mpc = "terminated"
    /\ Len(saved) >= 1

\* C8: the i-th fire_cameras call of a session gets batch index i - 1.
C8_BatchIndex ==
    \A i \in DOMAIN calls : calls[i] = i - 1

\* C8 witness: a second cycle was called after a first that enqueued
\* nothing.
C8_Witness ==
    /\ Len(calls) = 2
    /\ mark = 0
    /\ mpc = "latch"

\* The phase of the orchestrator.
PhaseOf(pc) ==
    CASE pc = "create" -> 0
      [] pc \in {"configure", "sys_setup"} -> 1
      [] pc \in {"sync_check", "sync_poll", "sync_sleep"} -> 2
      [] pc \in {"streams", "thread_start"} -> 3
      [] pc \in {"input", "latch", "set_time", "fire", "xfer_start",
                 "get_buffer", "xfer_stop", "serial", "put", "requeue",
                 "incr"} -> 4
      [] pc \in {"signal", "join"} -> 5
      [] pc \in {"destroy", "terminated"} -> 6
      [] pc = "fatal" -> 7
      [] OTHER -> 8

\* C9 as stated: the main flow moves from a phase only to the same or the
\* next phase of Configuring (1), Syncing (2), Streaming (3), Capturing (4),
\* Draining (5), Terminated (6), apart from the fatal exit before
\* Configuring when no device is found; it ends nowhere else.
C9_PhaseOrder ==
    [][\/ PhaseOf(mpc') = PhaseOf(mpc)
       \/ PhaseOf(mpc') = PhaseOf(mpc) + 1 /\ PhaseOf(mpc) < 6
       \/ PhaseOf(mpc) = 0 /\ PhaseOf(mpc') = 7]_vars

\* C10: in the capture loop the main thread is never blocked, whatever the
\* worker is doing and however long the queue is: the prompt can start a
\* cycle, every fire_cameras step can be taken, and the put can enqueue.
C10_NeverWaits ==
    /\ (mpc = "input" /\ Len(calls) < MaxCycles) => ENABLED InputEnter
    /\ mpc = "input" => ENABLED InputQuit
    /\ mpc \in {"latch", "set_time", "fire", "xfer_start", "get_buffer",
                "xfer_stop", "serial", "put", "requeue"} => ENABLED FireStep
    /\ mpc = "put" => ENABLED Enqueue
    /\ mpc = "incr" => ENABLED IncrBatch
    /\ mpc = "signal" => ENABLED Signal

\* C10 witness: the main thread is at the put while the worker is in the
\* middle of a save and the queue is not empty.
C10_Witness ==
    /\ mpc = "put"
    /\ wpc = "save"
    /\ buffer_queue # << >>

\* C11: every FrameTask is saved to images/<sessionID>/Scene_<batch padded
\* to 3 digits>/cam_<serial>.raw built from its own batch and serial (batch
\* below 10 here), with the one sessionID of the run in every path; batch 7,
\* serial ABC123, session 20240101T000000 give the path of the example.
C11_SavePath ==
    /\ \A i \in DOMAIN written :
          written[i].path =
              "images/" \o sessionID \o "/Scene_00" \o ToString(saved[i].batch)
                  \o "/cam_" \o ToString(saved[i].serial) \o ".raw"
    /\ PathOf("20240101T000000", Pad3(7), "ABC123")
          = "images/20240101T000000/Scene_007/cam_ABC123.raw"
    /\ Pad3(42) = "042"
    /\ Pad3(123) = "123"

\* C11 witness: frames of two batches were saved in one session.
C11_Witness ==
    /\ Len(written) >= 2
    /\ saved[1].batch # saved[Len(saved)].batch
    /\ written[1].path = "images/20240101T000000/Scene_000/cam_101.raw"

\* C12: every FrameTask holds a buffer of its own, never the device's, and
\* the image in it stays the one of its own cycle (batch + 1) while it is
\* queued, dequeued and saved, whatever the device's buffer holds by then.
C12_CopyIndependent ==
    /\ \A i \in DOMAIN enqueued : enqueued[i].image.ref = 0
    /\ \A i \in DOMAIN buffer_queue :
          ImageOf(buffer_queue[i].image) = buffer_queue[i].batch + 1
    /\ wpc = "save" => ImageOf(task.image) = task.batch + 1
    /\ \A i \in DOMAIN written : written[i].image = saved[i].batch + 1

\* C12 witness: a FrameTask is about to be saved after its device's buffer
\* was requeued and filled again by a later cycle.
C12_Witness ==
    /\ wpc = "save"
    /\ held[task.src] = 0
    /\ mem[task.src] > task.batch + 1

\* The positions of fire_cameras before and after the fire command.
BeforeFire == {"latch", "set_time", "fire"}
AfterFire  == {"xfer_start", "get_buffer", "xfer_stop", "serial", "put",
               "requeue", "incr"}

\* C13: in every cycle the first device's clock is latched, the execute time
\* is set to exactly that value plus 10,000,000, the fire command is sent
\* once, and only then are devices attempted; no command carries the execute
\* time of an earlier cycle.
C13_TriggerOrder ==
    /\ \A k \in DOMAIN fires :
          /\ fires[k].t0 = k * PTP_DELTA + FirstDevice
          /\ fires[k].at = fires[k].t0 + 10000000
          /\ \A j \in DOMAIN fires : j # k => fires[j].at # fires[k].at
    /\ mpc \in BeforeFire =>
          /\ Len(fires) = Len(calls) - 1
          /\ \A d \in AllDevices : attempts[d] = 0
    /\ mpc = "fire" =>
          ActionCommandExecuteTime = PtpClock(FirstDevice) + PTP_DELTA
    /\ mpc \in AfterFire => Len(fires) = Len(calls)

\* C13 witness: the second cycle has fired and a device is being read.
C13_Witness ==
    /\ Len(fires) = 2
    /\ mpc = "get_buffer"
    /\ fires[2].at = fires[1].at + PTP_DELTA

\* The FrameTask the worker has taken from the queue and not yet saved.
InHand == IF wpc = "save" THEN <<task>> ELSE << >>

\* C14: the FrameTasks passed to writer.save are a prefix of the FrameTasks
\* enqueued, in the same order; the rest is the task in the worker's hand
\* and the queue, so nothing is saved twice or without being enqueued.
C14_SavedPrefix ==
    /\ Len(saved) <= Len(enqueued)
    /\ saved = SubSeq(enqueued, 1, Len(saved))
    /\ enqueued = saved \o InHand \o buffer_queue

\* C14 witness: two different tasks of one cycle are saved, in the order
\* they were enqueued, and more tasks were enqueued since.
C14_Witness ==
    /\ Len(saved) >= 2
    /\ Len(enqueued) > Len(saved)
    /\ saved[1] # saved[2]
    /\ saved[1].batch = saved[2].batch

\* The most FrameTasks a run enqueues.
MaxTasks == NumDevices * MaxCycles

\* C15: every FrameTask enqueued is eventually passed to writer.save by the
\* fairly scheduled worker, whether or not the user ever enters q and
\* whether or not the other devices of the cycle deliver.
C15_EventuallySaved ==
    \A k \in 1 .. MaxTasks : (Len(enqueued) >= k) ~> (Len(saved) >= k)

\* C15 witness: the first device's frame is saved while the same cycle is
\* still reading the second device and the flag says continue.
C15_Witness ==
    /\ to_do = 1
    /\ mpc = "get_buffer"
    /\ dev = 2
    /\ Len(enqueued) = 1
    /\ Len(saved) = 1

\* C16: once the user has entered q the flag is cleared, the worker leaves
\* its loop, the join returns and the devices are released.
C16_ShutdownCompletes ==
    /\ (mpc = "signal") ~> (to_do = 0)
    /\ (to_do = 0) ~> (wpc = "done")
    /\ (mpc = "signal") ~> (mpc = "terminated")

\* C16 witness: the program has terminated after the worker drained frames.
C16_Witness ==
    /\ mpc = "terminated"
    /\ wpc = "done"
    /\ to_do = 0
    /\ Len(saved) >= 2
    /\ buffer_queue = << >>

\* The main flow is past the capture loop's last fire_cameras call.
PastCapture == mpc \in {"join", "destroy", "terminated"}

\* C17: the flag changes only from 1 to 0, in a step of the main flow at
\* line 193 in which the worker does nothing; once it is 0 the capture loop
\* is over, no fire_cameras call follows and it stays 0; and the worker has
\* not exited while it is 1.
C17_FlagOnce ==
    /\ [][to_do' # to_do =>
             /\ to_do = 1 /\ to_do' = 0
             /\ mpc = "signal" /\ mpc' = "join"
             /\ UNCHANGED worker]_vars
    /\ [][to_do = 0 => (to_do' = 0 /\ calls' = calls)]_vars
    /\ [](to_do = 0 => PastCapture)
    /\ [](wpc = "done" => to_do = 0)

\* C17 witness: the flag is cleared after two cycles while the worker is
\* still about to save a frame.
C17_Witness ==
    /\ to_do = 0
    /\ Len(calls) = 2
    /\ wpc = "save"
    /\ mpc = "join"

\* start_streams has returned.
StreamsReturned == mpc = "thread_start" \/ wpc # "unstarted"

\* C18: start_streams calls start_stream at most once per device, goes on
\* after a failure and returns with one call made on every device; the
\* device list is not changed by it; and when a later fire_cameras cycle
\* returns, each device whose start failed was attempted once, gave no
\* buffer and has no FrameTask, while the FrameTasks of the cycle are those
\* of the devices whose own steps did not fail.
C18_FailedStreamStays ==
    /\ \A d \in AllDevices : started[d] <= 1
    /\ mpc = "streams" => (dev \in devices /\ ENABLED StartStream)
    /\ StreamsReturned => \A d \in devices : started[d] = 1
    /\ \A i \in DOMAIN enqueued : enqueued[i].src \in streaming
    /\ mpc = "incr" =>
          /\ \A d \in devices \ streaming :
                /\ attempts[d] = 1
                /\ d \notin retrieved
                /\ \A i \in DOMAIN CycleTasks : CycleTasks[i].src # d
          /\ {CycleTasks[i].src : i \in DOMAIN CycleTasks} = retrieved \ lost
          /\ retrieved \subseteq streaming

\* C18 witness: the first device's stream start failed, the second cycle
\* has returned, and both cycles enqueued the second device's frame.
C18_Witness ==
    /\ mpc = "incr"
    /\ nDev = 2
    /\ streaming = {2}
    /\ started[1] = 1
    /\ Len(calls) = 2
    /\ Len(enqueued) = 2
    /\ Len(CycleTasks) = 1

\* C19: whenever the worker is at buffer_queue.get() the queue is not
\* empty and the call returns at once, wherever fire_cameras is.
C19_GetNeverBlocks ==
    wpc = "get" => (buffer_queue # << >> /\ ENABLED WorkerGet)

\* C19 witness: the worker is at get while fire_cameras is about to put the
\* next FrameTask.
C19_Witness ==
    /\ wpc = "get"
    /\ mpc = "put"
    /\ Len(buffer_queue) = 1

\* C20: the devices' serials being pairwise distinct, no two FrameTasks
\* enqueued carry the same batch and serial, and no path is written twice.
C20_NoOverwrite ==
    /\ \A i, j \in DOMAIN enqueued :
          (i # j) => <<enqueued[i].batch, enqueued[i].serial>>
                         # <<enqueued[j].batch, enqueued[j].serial>>
    /\ \A i, j \in DOMAIN written : (i # j) => written[i].path # written[j].path

\* C20 witness: frames of every device in two cycles were written.
C20_Witness ==
    /\ Len(written) = NumDevices * MaxCycles
    /\ \A d1, d2 \in AllDevices : (d1 # d2) => SerialOf(d1) # SerialOf(d2)
    /\ \E i, j \in DOMAIN saved :
          saved[i].serial = saved[j].serial /\ saved[i].batch # saved[j].batch
=============================================================================
